---- MODULE Spec2Model ----
(***************************************************************************)
(* Model of toorajtaraz/to_alloc_or_not_to_alloc:                          *)
(*   src/src/count_mem_calls.py  - the benchmark driver (time / strace)    *)
(*   src/plotter/openfoam.py     - the report plotter                      *)
(*                                                                         *)
(* Three specifications share the module:                                  *)
(*   SpecDriver - one run of count_mem_calls.py, statement by statement    *)
(*   SpecTrace  - the strace-log parsing loop over every bounded log       *)
(*   SpecPlot   - one run of openfoam.py main()                            *)
(* Text is a sequence of one-character strings.  Times and CSV values are  *)
(* integers; quotients are kept exact as normalised fractions.             *)
(***************************************************************************)
EXTENDS Integers, Sequences, FiniteSets, TLC

\* ---------------------------------------------------------------- bounds
MaxIters == 2
MaxLineLen == 4
MaxTraceLines == 2
MaxRows == 3
MaxTopN == 2

VARIABLES
    \* ---- driver (count_mem_calls.py)
    pc,             \* position in the script
    args,           \* argparse namespace plus the file-system facts it meets
    config,         \* dict returned by handle_time / handle_strace
    command,        \* module-level `command` list: [wrapper, binary]
    so_checked,     \* os.path.isfile(so_path) has been evaluated
    env_preload,    \* LD_PRELOAD is set in the environment copy `env`
    children,       \* child processes spawned so far, in order
    malloc_times,   \* malloc_{real,user,system}_times, zipped
    mimalloc_times, \* mimalloc_{real,user,system}_times, zipped
    stdout,         \* what the driver printed
    exit_code,      \* status the interpreter ends with (0 until it ends otherwise)
    log_exists,     \* strace_counter_<timestamp> exists in the cwd
    log_opened,     \* open(output_log) has been attempted
    log_lines,      \* content of the trace log
    syscall_list,   \* syscall_list
    \* ---- trace parsing on its own
    t_log, t_loop, t_pc,
    \* ---- plotter (openfoam.py)
    p_pc, csv, df, baseline_arg, baseline, top_n, top_commands,
    pivot_relative, plotted, p_out

driverVars == <<pc, args, config, command, so_checked, env_preload, children,
                malloc_times, mimalloc_times, stdout, exit_code, log_exists,
                log_opened, log_lines, syscall_list>>
traceVars == <<t_log, t_loop, t_pc>>
plotVars == <<p_pc, csv, df, baseline_arg, baseline, top_n, top_commands,
              pivot_relative, plotted, p_out>>
vars == <<driverVars, traceVars, plotVars>>

None == "None"
NoPivot == <<>>

\* ------------------------------------------------------- generic helpers
RECURSIVE SeqsUpTo(_, _)
SeqsUpTo(S, n) ==
    IF n = 0 THEN {<<>>}
    ELSE LET shorter == SeqsUpTo(S, n - 1)
         IN  shorter \cup {Append(s, x) : s \in {t \in shorter : Len(t) = n - 1}, x \in S}

Range(s) == {s[k] : k \in 1..Len(s)}

RECURSIVE SumSeq(_)
SumSeq(s) == IF s = <<>> THEN 0 ELSE s[1] + SumSeq(Tail(s))

\* =========================================================================
\*                       count_mem_calls.py
\* =========================================================================

\* --file values: not given, the empty string, or a path of some kind.
FileArgs == {None, "", "exec_file", "nonexec_file", "directory", "missing"}
\* --command values.
CommandArgs == {None, "", "ls -l"}
ModeArgs == {None, "time", "strace"}
AllocatorArgs == {None, "libmimalloc.so", "gnu"}
AllocatorChoices == {"libmimalloc.so"}

\* Python truthiness of an optional string.
Truthy(x) == x # None /\ x # ""

\* os.path.isfile / os.access(path, os.X_OK) on the modelled paths.
IsFile(path) == path \in {"exec_file", "nonexec_file"}
AccessX(path) == path \in {"exec_file", "directory"}

NoConfig == [mode |-> None, binary |-> None, iters |-> 0]

ValidateBinary_NoExecCheck(a) ==
    LET binary == IF Truthy(a.file) THEN a.file ELSE a.command
    IN  IF ~Truthy(binary) THEN "raise:you must provide either --file or --command"
        ELSE binary

\* validate_binary(args): the binary, or the exception it raises.
ValidateBinary(a) ==
    LET binary == IF Truthy(a.file) THEN a.file ELSE a.command
    IN  IF ~Truthy(binary) THEN "raise:you must provide either --file or --command"
        ELSE IF Truthy(a.file) /\ ~(IsFile(binary) /\ AccessX(binary))
             THEN "raise:not an executable file"
             ELSE binary

Raises(r) == r \in {"raise:you must provide either --file or --command",
                    "raise:not an executable file"}

\* argparse: what parser.parse_args() rejects with a usage error (status 2).
ArgparseAccepts(a) ==
    /\ a.mode # None
    /\ a.mode = "time" => /\ a.ldpreload
                          /\ a.allocator \in AllocatorChoices

ArgSpace ==
    [file : FileArgs, command : CommandArgs, mode : ModeArgs,
     ldpreload : BOOLEAN, allocator : AllocatorArgs, so_isfile : BOOLEAN,
     iters : 0..MaxIters]

\* Arguments of the subcommand that was not chosen do not exist.
WellFormedArgs(a) ==
    /\ a.mode # "time" => /\ ~a.ldpreload /\ a.allocator = None
                          /\ ~a.so_isfile /\ a.iters = 0
    /\ ~a.ldpreload => ~a.so_isfile

NoArgs == [file |-> None, command |-> None, mode |-> None, ldpreload |-> FALSE,
           allocator |-> None, so_isfile |-> FALSE, iters |-> 0]

DriverInit ==
    /\ pc = "parse_args"
    /\ args = NoArgs
    /\ config = NoConfig
    /\ command = <<>>
    /\ so_checked = FALSE
    /\ env_preload = FALSE
    /\ children = <<>>
    /\ malloc_times = <<>>
    /\ mimalloc_times = <<>>
    /\ stdout = <<>>
    /\ exit_code = 0
    /\ log_exists = FALSE
    /\ log_opened = FALSE
    /\ log_lines = <<>>
    /\ syscall_list = <<>>

\* ---- lines 44-67: parser.parse_args()
ParseArgs ==
    /\ pc = "parse_args"
    /\ \E a \in ArgSpace :
        /\ WellFormedArgs(a)
        /\ args' = a
        /\ IF ArgparseAccepts(a)
           THEN pc' = "dispatch" /\ exit_code' = exit_code
           ELSE pc' = "usage_error" /\ exit_code' = 2
    /\ UNCHANGED <<config, command, so_checked, env_preload, children,
                   malloc_times, mimalloc_times, stdout, log_exists,
                   log_opened, log_lines, syscall_list>>
    /\ UNCHANGED <<traceVars, plotVars>>

\* ---- lines 23-34: handle_time(args), called by args.func(args)
HandleTime_NoCheck ==
    /\ pc = "dispatch"
    /\ args.mode = "time"
    /\ so_checked' = so_checked
    /\ LET binary == ValidateBinary(args)
       IN  IF Raises(binary)
           THEN pc' = "traceback" /\ exit_code' = 1 /\ config' = config
           ELSE /\ pc' = "build_command"
                /\ exit_code' = exit_code
                /\ config' = [mode |-> "time", binary |-> binary,
                              iters |-> args.iters]
    /\ UNCHANGED <<args, command, env_preload, children, malloc_times,
                   mimalloc_times, stdout, log_exists, log_opened, log_lines,
                   syscall_list>>
    /\ UNCHANGED <<traceVars, plotVars>>

HandleTime ==
    /\ pc = "dispatch"
    /\ args.mode = "time"
    /\ so_checked' = TRUE
    /\ IF ~args.so_isfile
       THEN pc' = "sys_exit" /\ exit_code' = 1 /\ config' = config
       ELSE LET binary == ValidateBinary(args)
            IN  IF Raises(binary)
                THEN pc' = "traceback" /\ exit_code' = 1 /\ config' = config
                ELSE /\ pc' = "build_command"
                     /\ exit_code' = exit_code
                     /\ config' = [mode |-> "time", binary |-> binary,
                                   iters |-> args.iters]
    /\ UNCHANGED <<args, command, env_preload, children, malloc_times,
                   mimalloc_times, stdout, log_exists, log_opened, log_lines,
                   syscall_list>>
    /\ UNCHANGED <<traceVars, plotVars>>

\* ---- lines 37-41: handle_strace(args)
HandleStrace ==
    /\ pc = "dispatch"
    /\ args.mode = "strace"
    /\ LET binary == ValidateBinary(args)
       IN  IF Raises(binary)
           THEN pc' = "traceback" /\ exit_code' = 1 /\ config' = config
           ELSE /\ pc' = "build_command"
                /\ exit_code' = exit_code
                /\ config' = [mode |-> "strace", binary |-> binary, iters |-> 0]
    /\ UNCHANGED <<args, command, so_checked, env_preload, children,
                   malloc_times, mimalloc_times, stdout, log_exists,
                   log_opened, log_lines, syscall_list>>
    /\ UNCHANGED <<traceVars, plotVars>>

\* ---- lines 74-84: output_log name and the command list
BuildCommand ==
    /\ pc = "build_command"
    /\ command' = IF config.mode = "time" THEN <<"time", config.binary>>
                  ELSE <<"strace", config.binary>>
    /\ pc' = IF config.mode = "strace" THEN "strace_run" ELSE "time_loop1"
    /\ UNCHANGED <<args, config, so_checked, env_preload, children,
                   malloc_times, mimalloc_times, stdout, exit_code, log_exists,
                   log_opened, log_lines, syscall_list>>
    /\ UNCHANGED <<traceVars, plotVars>>

\* ---- lines 110-140: parse_time.  The report `time -f` leaves on stderr is
\* modelled by its three fields, each the list of integers that ":" separates
\* ("7" is <<7>>, "1:05" is <<1, 5>>, "1:02:03" is <<1, 2, 3>>); `marked` is
\* whether the "Real time: " ... markers are in the text at all.
TimeReports ==
    { [marked |-> TRUE,  real |-> <<0, 1>>,    user |-> <<1>>,    system |-> <<0>>],
      [marked |-> TRUE,  real |-> <<1, 5>>,    user |-> <<0, 2>>, system |-> <<1>>],
      [marked |-> TRUE,  real |-> <<1, 2, 3>>, user |-> <<1>>,    system |-> <<0>>],
      [marked |-> FALSE, real |-> <<>>,        user |-> <<>>,     system |-> <<>>] }

SecondsPerMinute == 60

\* parse_lengthy_time(t): m, s = t.split(":") needs exactly two parts.
ParseLengthyTime(t) == t[1] * SecondsPerMinute + t[2]

ParseField(t) == IF Len(t) > 1 THEN ParseLengthyTime(t) ELSE t[1]

FieldParses(t) == Len(t) \in {1, 2}

\* parse_time raises (IndexError / ValueError) on these reports.
ParseTimeRaises(r) ==
    \/ ~r.marked
    \/ ~FieldParses(r.real) \/ ~FieldParses(r.user) \/ ~FieldParses(r.system)

ParseTime(r) == <<ParseField(r.real), ParseField(r.user), ParseField(r.system)>>

\* How one subprocess.run(command, check=True, ...) can end.
ChildOutcomes ==
    {[launched |-> FALSE, rc |-> 1, stderr |-> r] :
        r \in {x \in TimeReports : ~x.marked}}
    \cup [launched : {TRUE}, rc : {0, 1}, stderr : TimeReports]

\* Lines 160-162 and 178-180: the handler of CalledProcessError prints and
\* calls exit(-1); the argument is where the script is afterwards.
AfterAppFailed_Continue(loop) == loop
AfterAppFailed(loop) == "app_failed"

AppFailed == [kind |-> "App failed", value |-> 0]
Printed(x) == [kind |-> "print", value |-> x]

\* Environment of the children of the first loop: subprocess.run is given no
\* env=, so the child inherits os.environ, which the driver never changes.
MallocChildPreload(e) == FALSE
\* Environment of the children of the second loop: env=env.
MimallocChildPreload(e) == e

\* ---- lines 151-162: one iteration of the first (malloc) loop
TimeRunMalloc ==
    /\ pc = "time_loop1"
    /\ Len(malloc_times) < config.iters
    /\ \E o \in ChildOutcomes :
        IF ~o.launched
        THEN /\ pc' = "traceback" /\ exit_code' = 1
             /\ UNCHANGED <<children, malloc_times, stdout>>
        ELSE /\ children' = Append(children,
                    [series |-> "malloc", rc |-> o.rc, stderr |-> o.stderr,
                     preload |-> MallocChildPreload(env_preload)])
             /\ IF o.rc # 0
                THEN /\ stdout' = Append(stdout, AppFailed)
                     /\ pc' = AfterAppFailed(pc)
                     /\ exit_code' = IF pc' = "app_failed" THEN -1 ELSE exit_code
                     /\ malloc_times' = malloc_times
                ELSE IF ParseTimeRaises(o.stderr)
                THEN /\ pc' = "traceback" /\ exit_code' = 1
                     /\ UNCHANGED <<malloc_times, stdout>>
                ELSE /\ malloc_times' = Append(malloc_times, ParseTime(o.stderr))
                     /\ UNCHANGED <<pc, exit_code, stdout>>
    /\ UNCHANGED <<args, config, command, so_checked, env_preload,
                   mimalloc_times, log_exists, log_opened, log_lines,
                   syscall_list>>
    /\ UNCHANGED <<traceVars, plotVars>>

\* ---- lines 164-166: env = os.environ.copy(); env['LD_PRELOAD'] = so_path
SetEnv ==
    /\ pc = "time_loop1"
    /\ Len(malloc_times) >= config.iters
    /\ env_preload' = TRUE
    /\ pc' = "time_loop2"
    /\ UNCHANGED <<args, config, command, so_checked, children, malloc_times,
                   mimalloc_times, stdout, exit_code, log_exists, log_opened,
                   log_lines, syscall_list>>
    /\ UNCHANGED <<traceVars, plotVars>>

\* ---- lines 167-180: one iteration of the second (mimalloc) loop
TimeRunMimalloc ==
    /\ pc = "time_loop2"
    /\ Len(mimalloc_times) < config.iters
    /\ \E o \in ChildOutcomes :
        IF ~o.launched
        THEN /\ pc' = "traceback" /\ exit_code' = 1
             /\ UNCHANGED <<children, mimalloc_times, stdout>>
        ELSE /\ children' = Append(children,
                    [series |-> "mimalloc", rc |-> o.rc, stderr |-> o.stderr,
                     preload |-> MimallocChildPreload(env_preload)])
             /\ IF o.rc # 0
                THEN /\ stdout' = Append(stdout, AppFailed)
                     /\ pc' = AfterAppFailed(pc)
                     /\ exit_code' = IF pc' = "app_failed" THEN -1 ELSE exit_code
                     /\ mimalloc_times' = mimalloc_times
                ELSE IF ParseTimeRaises(o.stderr)
                THEN /\ pc' = "traceback" /\ exit_code' = 1
                     /\ UNCHANGED <<mimalloc_times, stdout>>
                ELSE /\ mimalloc_times' = Append(mimalloc_times, ParseTime(o.stderr))
                     /\ UNCHANGED <<pc, exit_code, stdout>>
    /\ UNCHANGED <<args, config, command, so_checked, env_preload,
                   malloc_times, log_exists, log_opened, log_lines,
                   syscall_list>>
    /\ UNCHANGED <<traceVars, plotVars>>

Column(times, k) == [j \in 1..Len(times) |-> times[j][k]]

\* ---- lines 182-189: the six totals
PrintTotals ==
    /\ pc = "time_loop2"
    /\ Len(mimalloc_times) >= config.iters
    /\ stdout' = stdout \o
          << Printed(SumSeq(Column(malloc_times, 1))),
             Printed(SumSeq(Column(mimalloc_times, 1))),
             Printed(SumSeq(Column(malloc_times, 2))),
             Printed(SumSeq(Column(mimalloc_times, 2))),
             Printed(SumSeq(Column(malloc_times, 3))),
             Printed(SumSeq(Column(mimalloc_times, 3))) >>
    /\ pc' = "done"
    /\ UNCHANGED <<args, config, command, so_checked, env_preload, children,
                   malloc_times, mimalloc_times, exit_code, log_exists,
                   log_opened, log_lines, syscall_list>>
    /\ UNCHANGED <<traceVars, plotVars>>

\* ------------------------------------------------ strace log parsing
\* str.split(sep) for a one-character sep: every occurrence of sep cuts, so
\* consecutive separators give empty pieces; never fewer than one piece.
RECURSIVE SplitOn(_, _)
SplitOn(s, sep) ==
    IF \A k \in 1..Len(s) : s[k] # sep THEN <<s>>
    ELSE LET k == CHOOSE j \in 1..Len(s) :
                      s[j] = sep /\ \A h \in 1..(j - 1) : s[h] # sep
         IN  <<SubSeq(s, 1, k - 1)>> \o SplitOn(SubSeq(s, k + 1, Len(s)), sep)

Alnum == {"a", "b", "1"}
IsAlnum(ch) == ch \in Alnum

\* A line as the `for line in f` loop sees it: with its line terminator.
AsRead(content) == Append(content, "\n")

\* Lines 98-103, the body of the loop for one line: the list of tokens
\* the line appends to syscall_list (none, or one).  Both IndexErrors - no
\* second piece, empty token - are caught and skip the line.
LineTokens(line) ==
    LET pieces == SplitOn(line, " ")
    IN  IF Len(pieces) < 2 THEN <<>>
        ELSE LET token == SplitOn(pieces[2], "(")[1]
             IN  IF token = <<>> THEN <<>>
                 ELSE IF IsAlnum(token[1]) THEN <<token>>
                 ELSE <<>>

\* Lines 94-103: syscall_list after the whole file has been read.
RECURSIVE SyscallList(_)
SyscallList(lines) ==
    IF lines = <<>> THEN <<>>
    ELSE LineTokens(AsRead(lines[1])) \o SyscallList(Tail(lines))

\* Line 106: dict(Counter(syscall_list)).
Counter(list) ==
    [k \in Range(list) |-> Cardinality({j \in 1..Len(list) : list[j] = k})]

\* Logs strace leaves behind in a driver run.
SampleLines ==
    { <<"1", " ", "a", "(", "b">>,
      <<"1", " ", "-", "-", "-">>,
      <<"1", " ", " ", "b", "(">>,
      <<"1">> }
SampleLogs == SeqsUpTo(SampleLines, 2)

\* ---- lines 87-92: the single strace invocation
StraceRun ==
    /\ pc = "strace_run"
    /\ \/ \* strace cannot be started: OSError is not caught
          /\ pc' = "traceback" /\ exit_code' = 1
          /\ UNCHANGED <<children, stdout, log_exists, log_lines>>
       \/ \* exit status 0: the log has been written
          /\ children' = Append(children,
                 [series |-> "strace", rc |-> 0, preload |-> FALSE])
          /\ log_exists' = TRUE
          /\ log_lines' \in SampleLogs
          /\ pc' = "open_log"
          /\ UNCHANGED <<stdout, exit_code>>
       \/ \* CalledProcessError is caught and printed; strace may have stopped
          \* before or after it created the log
          /\ children' = Append(children,
                 [series |-> "strace", rc |-> 1, preload |-> FALSE])
          /\ stdout' = Append(stdout, AppFailed)
          /\ \/ log_exists' = TRUE /\ log_lines' \in SampleLogs
             \/ log_exists' = FALSE /\ log_lines' = log_lines
          /\ pc' = "open_log"
          /\ UNCHANGED exit_code
    /\ UNCHANGED <<args, config, command, so_checked, env_preload,
                   malloc_times, mimalloc_times, log_opened, syscall_list>>
    /\ UNCHANGED <<traceVars, plotVars>>

\* ---- lines 94-103: open the log and read it to the end
ParseLog ==
    /\ pc = "open_log"
    /\ log_opened' = TRUE
    /\ IF log_exists
       THEN /\ syscall_list' = SyscallList(log_lines)
            /\ pc' = "remove_log"
            /\ UNCHANGED exit_code
       ELSE \* FileNotFoundError
            /\ pc' = "traceback" /\ exit_code' = 1
            /\ UNCHANGED syscall_list
    /\ UNCHANGED <<args, config, command, so_checked, env_preload, children,
                   malloc_times, mimalloc_times, stdout, log_exists, log_lines>>
    /\ UNCHANGED <<traceVars, plotVars>>

\* ---- line 104: os.remove(output_log)
RemoveLog_Skip ==
    /\ pc = "remove_log"
    /\ pc' = "print_loop"
    /\ UNCHANGED <<args, config, command, so_checked, env_preload, children,
                   malloc_times, mimalloc_times, stdout, exit_code, log_exists,
                   log_opened, log_lines, syscall_list>>
    /\ UNCHANGED <<traceVars, plotVars>>

RemoveLog ==
    /\ pc = "remove_log"
    /\ log_exists' = FALSE
    /\ pc' = "print_loop"
    /\ UNCHANGED <<args, config, command, so_checked, env_preload, children,
                   malloc_times, mimalloc_times, stdout, exit_code, log_opened,
                   log_lines, syscall_list>>
    /\ UNCHANGED <<traceVars, plotVars>>

\* ---- lines 106-108: print(dict(Counter(syscall_list)))
PrintHist ==
    /\ pc = "print_loop"
    /\ stdout' = Append(stdout, Printed(Counter(syscall_list)))
    /\ pc' = "done"
    /\ UNCHANGED <<args, config, command, so_checked, env_preload, children,
                   malloc_times, mimalloc_times, exit_code, log_exists,
                   log_opened, log_lines, syscall_list>>
    /\ UNCHANGED <<traceVars, plotVars>>

DriverEnded == pc \in {"done", "usage_error", "sys_exit", "traceback", "app_failed"}

TraceIdle == t_log = <<>> /\ t_loop = <<>> /\ t_pc = "idle"
PlotIdle ==
    /\ p_pc = "idle" /\ csv = <<>> /\ df = <<>>
    /\ baseline_arg = None /\ baseline = None /\ top_n = 0
    /\ top_commands = {} /\ pivot_relative = NoPivot /\ plotted = <<>>
    /\ p_out = <<>>
DriverIdle ==
    /\ pc = "idle" /\ args = NoArgs /\ config = NoConfig /\ command = <<>>
    /\ so_checked = FALSE /\ env_preload = FALSE /\ children = <<>>
    /\ malloc_times = <<>> /\ mimalloc_times = <<>> /\ stdout = <<>>
    /\ exit_code = 0 /\ log_exists = FALSE /\ log_opened = FALSE
    /\ log_lines = <<>> /\ syscall_list = <<>>

DriverNext ==
    \/ ParseArgs
    \/ HandleTime
    \/ HandleStrace
    \/ BuildCommand
    \/ TimeRunMalloc
    \/ SetEnv
    \/ TimeRunMimalloc
    \/ PrintTotals
    \/ StraceRun
    \/ ParseLog
    \/ RemoveLog
    \/ PrintHist

InitDriver == DriverInit /\ TraceIdle /\ PlotIdle

SpecDriver == InitDriver /\ [][DriverNext]_vars

\* =========================================================================
\*        the parsing loop of lines 94-106 over every bounded log
\* =========================================================================
TraceAlphabet == {" ", "a", "-", "("}
TraceLines == SeqsUpTo(TraceAlphabet, MaxLineLen)
TraceLogs == SeqsUpTo(TraceLines, MaxTraceLines)

InitTrace ==
    /\ t_log \in TraceLogs
    /\ t_loop = [list |-> <<>>, pos |-> 0, hist |-> <<>>]
    /\ t_pc = "read"
    /\ DriverIdle /\ PlotIdle

\* Lines 97-103: one turn of `for line in f`.
TraceReadLine ==
    /\ t_pc = "read"
    /\ t_loop.pos < Len(t_log)
    /\ t_loop' = [t_loop EXCEPT
                    !.pos = @ + 1,
                    !.list = @ \o LineTokens(AsRead(t_log[t_loop.pos + 1]))]
    /\ UNCHANGED <<t_log, t_pc, driverVars, plotVars>>

\* Line 106: the file is exhausted; syscall_hist = dict(Counter(syscall_list)).
TraceCount ==
    /\ t_pc = "read"
    /\ t_loop.pos >= Len(t_log)
    /\ t_loop' = [t_loop EXCEPT !.hist = Counter(t_loop.list)]
    /\ t_pc' = "done"
    /\ UNCHANGED <<t_log, driverVars, plotVars>>

TraceNext == TraceReadLine \/ TraceCount

SpecTrace == InitTrace /\ [][TraceNext]_vars

\* =========================================================================
\*                       plotter/openfoam.py
\* =========================================================================
\* Index order of a groupby / pivot_table: the keys sorted ascending.
CommandNames == <<"A", "B">>
AllocatorNames == <<"gnu", "mimalloc">>
BaselineArgs == {None, "gnu", "jemalloc"}

\* The numeric columns of a CSV row: total_mean, and user_mean for the other
\* eight.  -1 marks a failure and -60 a timeout.
RowValues == {<<-60, 1>>, <<-1, 1>>, <<0, 1>>, <<1, 1>>, <<2, 1>>, <<1, -1>>}

Rows == {[command |-> c, allocator |-> a, total_mean |-> v[1], user_mean |-> v[2]] :
            c \in Range(CommandNames), a \in Range(AllocatorNames), v \in RowValues}

\* The CSVs read: at most MaxRows rows, one row per (command, allocator) pair,
\* in any order.
FreshRows(t) ==
    {r \in Rows : \A k \in 1..Len(t) :
        t[k].command # r.command \/ t[k].allocator # r.allocator}

RECURSIVE TablesUpTo(_)
TablesUpTo(n) ==
    IF n = 0 THEN {<<>>}
    ELSE LET shorter == TablesUpTo(n - 1)
         IN  shorter \cup
             UNION {{Append(t, r) : r \in FreshRows(t)} :
                        t \in {x \in shorter : Len(x) = n - 1}}

Tables == TablesUpTo(MaxRows)

\* row.values of df.iterrows(): the strings of a row never equal a number.
NumericValues(row) == {row.total_mean, row.user_mean}

\* Lines 79-84 of load_and_clean_data: the commands of the rows without a
\* sentinel are collected, then every row of a collected command is kept.
ValidCommands(table) ==
    {table[k].command : k \in {j \in 1..Len(table) :
        ~((-60 \in NumericValues(table[j])) \/ (-1 \in NumericValues(table[j])))}}

LoadAndCleanData(table) ==
    SelectSeq(table, LAMBDA row : row.command \in ValidCommands(table))

\* unique() of a column: the values present.
CommandsOf(table) == {table[k].command : k \in 1..Len(table)}
AllocatorsOf(table) == {table[k].allocator : k \in 1..Len(table)}

\* ---- exact quotients
RECURSIVE GCD(_, _)
GCD(a, b) == IF b = 0 THEN a ELSE GCD(b, a % b)
Abs(x) == IF x < 0 THEN -x ELSE x

NaN == [kind |-> "nan", n |-> 0, d |-> 1]
Inf(sign) == [kind |-> IF sign < 0 THEN "-inf" ELSE "inf", n |-> 0, d |-> 1]
\* n / d for d # 0, in lowest terms with a positive denominator.
Frac(n, d) ==
    LET g == GCD(Abs(n), Abs(d))
        sgn == IF d < 0 THEN -1 ELSE 1
    IN  [kind |-> "num", n |-> sgn * (n \div g), d |-> sgn * (d \div g)]

\* IEEE division as numpy does it: NaN propagates, 0/0 is NaN, x/0 is +-inf.
Div(x, y) ==
    IF x.kind = "nan" \/ y.kind = "nan" THEN NaN
    ELSE IF y.n = 0 THEN (IF x.n = 0 THEN NaN ELSE Inf(x.n))
    ELSE Frac(x.n * y.d, x.d * y.n)

\* aggfunc='mean' over the rows of one (command, allocator) cell; a cell with
\* no row is NaN.
CellRows(table, c, a) ==
    {k \in 1..Len(table) : table[k].command = c /\ table[k].allocator = a}

RECURSIVE SumTotal(_, _)
SumTotal(table, ks) ==
    IF ks = {} THEN 0
    ELSE LET k == CHOOSE j \in ks : TRUE
         IN  table[k].total_mean + SumTotal(table, ks \ {k})

CellMean(table, c, a) ==
    LET ks == CellRows(table, c, a)
    IN  IF ks = {} THEN NaN ELSE Frac(SumTotal(table, ks), Cardinality(ks))

\* Lines 22-27 / 165-170: df.pivot_table(values='total_mean', index='command',
\* columns='allocator', aggfunc='mean').
PivotTable(table) ==
    [c \in CommandsOf(table) |-> [a \in AllocatorsOf(table) |-> CellMean(table, c, a)]]

PivotColumns(table) == AllocatorsOf(table)

\* Lines 33 / 176: pivot_data.div(pivot_data[baseline], axis=0) - every row
\* is divided by its own baseline cell.
PivotRelative_OneDivisor(table, b) ==
    LET pv == PivotTable(table)
        first == CommandNames[CHOOSE k \in 1..Len(CommandNames) :
                    /\ CommandNames[k] \in DOMAIN pv
                    /\ \A h \in 1..(k - 1) : CommandNames[h] \notin DOMAIN pv]
    IN  [c \in DOMAIN pv |-> [a \in DOMAIN pv[c] |-> Div(pv[c][a], pv[first][b])]]

PivotRelative(table, b) ==
    LET pv == PivotTable(table)
    IN  [c \in DOMAIN pv |-> [a \in DOMAIN pv[c] |-> Div(pv[c][a], pv[c][b])]]

\* ---- lines 281-283: the N commands with the highest mean total_mean
CommandRows(table, c) == {k \in 1..Len(table) : table[k].command = c}

\* groupby('command')['total_mean'].mean(): mean(c1) > mean(c2), compared
\* exactly (the counts are positive).
MeanGreater(table, c1, c2) ==
    SumTotal(table, CommandRows(table, c1)) * Cardinality(CommandRows(table, c2))
        > SumTotal(table, CommandRows(table, c2)) * Cardinality(CommandRows(table, c1))

MeanEqual(table, c1, c2) ==
    ~MeanGreater(table, c1, c2) /\ ~MeanGreater(table, c2, c1)

IndexIn(seq, x) == CHOOSE k \in 1..Len(seq) : seq[k] = x

\* Position of a command in the grouped series: groupby sorts its keys.
GroupPosition_Encounter(table, c) ==
    CHOOSE k \in 1..Len(table) :
        table[k].command = c /\ \A h \in 1..(k - 1) : table[h].command # c

GroupPosition(table, c) == IndexIn(CommandNames, c)

\* Rank of a command under nlargest(keep='first'): the commands that come
\* before it - a greater mean, or the same mean and an earlier position.
Rank(table, c) ==
    Cardinality({o \in CommandsOf(table) :
        \/ MeanGreater(table, o, c)
        \/ /\ o # c /\ MeanEqual(table, o, c)
           /\ GroupPosition(table, o) < GroupPosition(table, c)})

\* .nlargest(n).index, as the set it is used as by isin().
NLargest(table, n) == {c \in CommandsOf(table) : Rank(table, c) < n}


Saved(plots, name) == Append(plots, name)

RECURSIVE UniqueInOrder(_)
\* df['command'].unique(): the commands in the order they first appear.
UniqueInOrder(seq) ==
    IF seq = <<>> THEN <<>>
    ELSE LET init == UniqueInOrder(SubSeq(seq, 1, Len(seq) - 1))
             last == seq[Len(seq)]
         IN  IF last \in Range(init) THEN init ELSE Append(init, last)

CommandColumn(table) == [k \in 1..Len(table) |-> table[k].command]

InitPlot ==
    /\ p_pc = "start"
    /\ csv = <<>> /\ df = <<>>
    /\ baseline_arg = None /\ baseline = None /\ top_n = 0
    /\ top_commands = {} /\ pivot_relative = NoPivot /\ plotted = <<>>
    /\ p_out = <<>>
    /\ DriverIdle /\ TraceIdle

\* ---- lines 332-344: parse_args, mkdir, load_and_clean_data, empty check
LoadData ==
    /\ p_pc = "start"
    /\ \E table \in Tables :
        /\ csv' = table
        /\ df' = LoadAndCleanData(table)
    /\ IF Len(df') = 0
       THEN p_pc' = "returned" /\ p_out' = Append(p_out, "No valid data to plot!")
       ELSE p_pc' = "validate_baseline" /\ p_out' = p_out
    /\ UNCHANGED <<baseline_arg, baseline, top_n, top_commands, pivot_relative,
                   plotted, driverVars, traceVars>>

\* ---- lines 346-355: the baseline given with --baseline is validated
ValidateBaseline ==
    /\ p_pc = "validate_baseline"
    /\ \E b \in BaselineArgs :
        /\ baseline_arg' = b
        /\ IF Truthy(b)
           THEN IF b \notin AllocatorsOf(df)
                THEN /\ p_out' = Append(p_out, "Warning: Baseline allocator not found in data!")
                     /\ baseline' = None
                ELSE /\ p_out' = Append(p_out, "Using baseline allocator")
                     /\ baseline' = b
           ELSE /\ p_out' = p_out
                /\ baseline' = b
    /\ p_pc' = "summary"
    /\ UNCHANGED <<csv, df, top_n, top_commands, pivot_relative, plotted,
                   driverVars, traceVars>>

\* ---- line 359: plot_allocator_summary
PlotAllocatorSummary ==
    /\ p_pc = "summary"
    /\ plotted' = Saved(plotted, "allocator_summary.png")
    /\ p_pc' = "heatmap"
    /\ UNCHANGED <<csv, df, baseline_arg, baseline, top_n, top_commands,
                   pivot_relative, p_out, driverVars, traceVars>>

\* ---- line 360: plot_allocator_overview_heatmap (lines 155-217)
PlotAllocatorOverviewHeatmap ==
    /\ p_pc = "heatmap"
    /\ IF baseline \notin PivotColumns(df)
       THEN /\ p_pc' = "ValueError: baseline not found"
            /\ UNCHANGED <<pivot_relative, plotted>>
       ELSE /\ pivot_relative' = PivotRelative(df, baseline)
            /\ plotted' = Saved(plotted, "allocator_heatmap.png")
            /\ p_pc' = "heatmap_new"
    /\ UNCHANGED <<csv, df, baseline_arg, baseline, top_n, top_commands, p_out,
                   driverVars, traceVars>>

\* ---- line 361: plot_allocator_overview_heatmap_new (lines 21-66)
PlotAllocatorOverviewHeatmapNew ==
    /\ p_pc = "heatmap_new"
    /\ IF baseline \notin PivotColumns(df)
       THEN /\ p_pc' = "ValueError: baseline not found"
            /\ UNCHANGED <<pivot_relative, plotted>>
       ELSE /\ pivot_relative' = PivotRelative(df, baseline)
            /\ plotted' = Saved(plotted, "allocator_heatmap_new.png")
            /\ p_pc' = "top_commands"
    /\ UNCHANGED <<csv, df, baseline_arg, baseline, top_n, top_commands, p_out,
                   driverVars, traceVars>>

\* ---- line 362: plot_top_commands_comparison (lines 278-319); with nothing
\* selected n_allocators is 0 and line 291 divides by it.
PlotTopCommandsComparison ==
    /\ p_pc = "top_commands"
    /\ \E n \in 0..MaxTopN :
        /\ top_n' = n
        /\ top_commands' = NLargest(df, n)
    /\ IF top_commands' = {}
       THEN p_pc' = "ZeroDivisionError" /\ plotted' = plotted
       ELSE /\ plotted' = Saved(plotted, "top_commands_comparison.png")
            /\ p_pc' = "individual"
    /\ UNCHANGED <<csv, df, baseline_arg, baseline, pivot_relative, p_out,
                   driverVars, traceVars>>

\* ---- lines 364-376: the per-command charts unless --skip-individual, then
\* the final summary
PlotIndividualAndFinish ==
    /\ p_pc = "individual"
    /\ \E skip_individual \in BOOLEAN :
        plotted' = IF skip_individual THEN plotted
                   ELSE plotted \o UniqueInOrder(CommandColumn(df))
    /\ p_out' = Append(p_out, "All plots saved")
    /\ p_pc' = "done"
    /\ UNCHANGED <<csv, df, baseline_arg, baseline, top_n, top_commands,
                   pivot_relative, driverVars, traceVars>>

PlotNext ==
    \/ LoadData
    \/ ValidateBaseline
    \/ PlotAllocatorSummary
    \/ PlotAllocatorOverviewHeatmap
    \/ PlotAllocatorOverviewHeatmapNew
    \/ PlotTopCommandsComparison
    \/ PlotIndividualAndFinish

SpecPlot == InitPlot /\ [][PlotNext]_vars

\* =========================================================================
\*                       claims about the driver
\* =========================================================================
Supplied(x) == Truthy(x)
TimeChildren == {k \in 1..Len(children) : children[k].series # "strace"}

C4_ChildFailureIsFatal ==
    \A k \in TimeChildren :
        children[k].rc # 0
            => /\ k = Len(children)
               /\ pc = "app_failed"
               /\ exit_code = -1
               /\ \A j \in 1..Len(stdout) : stdout[j].kind # "print"
               /\ ~ENABLED DriverNext

C4_Witness ==
    /\ pc = "app_failed"
    /\ malloc_times # <<>>
    /\ mimalloc_times # <<>>
    /\ children[Len(children)].rc # 0
    /\ children[Len(children)].series = "mimalloc"

\* What the claim counts as a configuration error.
ConfigError(a) ==
    \/ ~Supplied(a.file) /\ ~Supplied(a.command)
    \/ Supplied(a.file) /\ a.file \in {"nonexec_file", "directory", "missing"}
    \/ a.mode = "time" /\ ~a.so_isfile

\* C5: a run with a configuration error - neither --file nor --command, a
\* --file that is not an executable regular file, or (timing mode) a missing
\* shared object - never spawns a child and never prints, and once past the
\* handlers it has ended with an error status.
C5_ConfigErrorBeforeAnySpawn ==
    (pc # "parse_args" /\ ConfigError(args))
        => /\ children = <<>>
           /\ stdout = <<>>
           /\ pc \in {"dispatch", "usage_error", "sys_exit", "traceback"}
           /\ pc # "dispatch" => exit_code # 0 /\ ~ENABLED DriverNext

C5_Witness ==
    /\ ConfigError(args)
    /\ args.mode = "time" /\ args.so_isfile
    /\ ~Supplied(args.file) /\ ~Supplied(args.command)
    /\ pc = "traceback"

\* validate_binary has returned or raised.
ValidateBinaryCalled ==
    pc \notin {"parse_args", "dispatch", "usage_error", "sys_exit"}

\* C6: validate_binary accepts exactly when exactly one of --file and
\* --command is supplied and a supplied --file is an executable regular file.
C6_AcceptsIffExactlyOne ==
    ValidateBinaryCalled
        => ( config.binary # None
               <=> /\ Supplied(args.file) # Supplied(args.command)
                   /\ Supplied(args.file) => args.file = "exec_file" )

\* C8: once a trace-mode run has ended, the log file does not exist, and
\* after a non-zero tracer exit the driver has still attempted to open it
\* (and, when it was there, parsed and removed it and printed the counts).
C8_LogGoneWhenEnded ==
    (args.mode = "strace" /\ DriverEnded)
        => /\ ~log_exists
           /\ \A k \in 1..Len(children) :
                 children[k].rc # 0
                    => /\ log_opened
                       /\ pc \in {"done", "traceback"}
                       /\ pc = "done" => stdout[Len(stdout)].kind = "print"

C8_Witness ==
    /\ pc = "done"
    /\ children # <<>> /\ children[1].series = "strace" /\ children[1].rc # 0
    /\ log_opened /\ ~log_exists /\ log_lines # <<>>

\* ------------------------------------------------------------ C7
\* The tokens of a line that whitespace separates, however much of it.
WsTokens(content) == SelectSeq(SplitOn(content, " "), LAMBDA piece : piece # <<>>)

\* The name a line counts for, as the claim has it: its second
\* whitespace-separated token up to the first "(", when that starts with an
\* alphanumeric character.
ClaimedNames(content) ==
    LET tokens == WsTokens(content)
    IN  IF Len(tokens) < 2 THEN <<>>
        ELSE LET name == SplitOn(tokens[2], "(")[1]
             IN  IF name # <<>> /\ IsAlnum(name[1]) THEN <<name>> ELSE <<>>

RECURSIVE ClaimedList(_)
ClaimedList(lines) ==
    IF lines = <<>> THEN <<>>
    ELSE ClaimedNames(lines[1]) \o ClaimedList(Tail(lines))

\* C7: the printed mapping gives each name the number of lines whose second
\* whitespace-separated token, cut at its first "(", is that name and starts
\* with an alphanumeric character, however many blanks separate the tokens.
C7_CountsSecondWhitespaceToken ==
    t_pc = "done" => t_loop.hist = Counter(ClaimedList(t_log))

\* =========================================================================
\*                       claims about the plotter
\* =========================================================================
HasSentinel(row) ==
    \/ row.total_mean = -1 \/ row.total_mean = -60
    \/ row.user_mean = -1 \/ row.user_mean = -60

RowsOfCommand(table, c) == SelectSeq(table, LAMBDA row : row.command = c)

\* C1: the filter is per command: a command with a sentinel in any row has no
\* row left in the filtered data, and a command without any keeps every row.
C1_FilterIsPerCommand ==
    p_pc # "start"
        => \A c \in CommandsOf(csv) :
              IF \E k \in 1..Len(csv) : csv[k].command = c /\ HasSentinel(csv[k])
              THEN RowsOfCommand(df, c) = <<>>
              ELSE RowsOfCommand(df, c) = RowsOfCommand(csv, c)

\* C2: a --baseline that is not among the allocators of the filtered data is
\* downgraded to None and main goes on: no plotting call raises the
\* baseline-not-found error.
C2_InvalidBaselineDoesNotAbort ==
    (Truthy(baseline_arg) /\ baseline_arg \notin AllocatorsOf(df))
        => /\ baseline = None
           /\ p_pc # "ValueError: baseline not found"

\* ------------------------------------------------------------ C9
TopCommandsSelected == p_pc \in {"individual", "done"}

FirstRowOf(table, c) ==
    CHOOSE k \in 1..Len(table) :
        table[k].command = c /\ \A h \in 1..(k - 1) : table[h].command # c

\* `chosen` is n commands none of which a command left out beats on its mean,
\* and a command left out with the same mean as a chosen one comes after it
\* in the order Before(_, _).
IsTopN(table, chosen, n, Before(_, _)) ==
    /\ chosen \subseteq CommandsOf(table)
    /\ Cardinality(chosen) = n
    /\ \A c \in chosen : \A o \in CommandsOf(table) \ chosen :
          /\ ~MeanGreater(table, o, c)
          /\ MeanEqual(table, o, c) => Before(c, o)

\* C9 as stated: with at least N commands, the N commands with the highest
\* mean are selected and ties at the cut-off go to the commands that appear
\* first in the row order of the table.
C9_TopNTiesByRowOrder ==
    (TopCommandsSelected /\ Cardinality(CommandsOf(df)) >= top_n)
        => IsTopN(df, top_commands, top_n,
                  LAMBDA c, o : FirstRowOf(df, c) < FirstRowOf(df, o))

\* C9 amended: ... and ties at the cut-off go to the commands that come
\* first in ascending command-name order (the order of the grouped index).
C9_TopNTiesByCommandName ==
    (TopCommandsSelected /\ Cardinality(CommandsOf(df)) >= top_n)
        => IsTopN(df, top_commands, top_n,
                  LAMBDA c, o : IndexIn(CommandNames, c) < IndexIn(CommandNames, o))

\* A tie at the cut-off, decided against the row order.
C9_Witness ==
    /\ TopCommandsSelected
    /\ Cardinality(CommandsOf(df)) > top_n
    /\ \E c \in top_commands : \E o \in CommandsOf(df) \ top_commands :
          /\ MeanEqual(df, o, c)
          /\ FirstRowOf(df, o) < FirstRowOf(df, c)

\* ------------------------------------------------------------ C10
One == Frac(1, 1)
HeatmapComputed == p_pc \in {"heatmap_new", "top_commands", "individual", "done",
                             "ZeroDivisionError"}

\* cell = s1/k1 divided by s2/k2, without forming the quotient.
IsQuotient(cell, s1, k1, s2, k2) ==
    cell.kind = "num" /\ cell.n * k1 * s2 = cell.d * s1 * k2

\* C10 as stated: in every command row of the relative matrix the cell of
\* the baseline's own column is exactly 1.0.
C10_BaselineColumnIsOne ==
    HeatmapComputed
        => \A c \in DOMAIN pivot_relative : pivot_relative[c][baseline] = One

\* C10 amended: for every command row in which the baseline has a row with a
\* non-zero mean, every cell that has a row is mean / baseline mean and the
\* baseline's own cell is exactly 1.0; a row in which the baseline has no
\* row is NaN throughout; a row whose baseline mean is 0 has NaN in the
\* baseline's column and no finite cell.
C10_RowsDividedByOwnBaseline ==
    HeatmapComputed
        => \A c \in DOMAIN pivot_relative :
             LET bs == CellRows(df, c, baseline)
                 sb == SumTotal(df, bs)
             IN  IF bs = {}
                 THEN \A a \in DOMAIN pivot_relative[c] :
                         pivot_relative[c][a].kind = "nan"
                 ELSE IF sb = 0
                 THEN /\ pivot_relative[c][baseline].kind = "nan"
                      /\ \A a \in DOMAIN pivot_relative[c] :
                            pivot_relative[c][a].kind # "num"
                 ELSE /\ pivot_relative[c][baseline] = One
                      /\ \A a \in DOMAIN pivot_relative[c] :
                            LET as == CellRows(df, c, a)
                            IN  IF as = {}
                                THEN pivot_relative[c][a].kind = "nan"
                                ELSE IsQuotient(pivot_relative[c][a],
                                         SumTotal(df, as), Cardinality(as),
                                         sb, Cardinality(bs))

\* One matrix with a row at ratio 1/2 and a row the baseline is missing from.
C10_Witness ==
    /\ HeatmapComputed
    /\ \E c \in DOMAIN pivot_relative :
          /\ pivot_relative[c][baseline] = One
          /\ \E a \in DOMAIN pivot_relative[c] : pivot_relative[c][a] = Frac(1, 2)
    /\ \E c \in DOMAIN pivot_relative : pivot_relative[c][baseline].kind = "nan"

\* ------------------------------------------------------------ C11
SeriesChildren(series) == {k \in 1..Len(children) : children[k].series = series}

\* Sum of one time dimension over the reports of the children of a series.
RECURSIVE SumOverChildren(_, _)
SumOverChildren(ks, dim) ==
    IF ks = {} THEN 0
    ELSE LET k == CHOOSE j \in ks : TRUE
         IN  ParseTime(children[k].stderr)[dim] + SumOverChildren(ks \ {k}, dim)

\* N executions per configuration, one after the other and the baseline
\* series first, LD_PRELOAD in the second series only, and the six printed
\* totals the sums of each dimension over the N samples of its series.
NRunsPerSeriesAndTotals ==
    /\ Len(children) = 2 * config.iters
    /\ \A k \in 1..Len(children) :
          /\ children[k].series = IF k <= config.iters THEN "malloc" ELSE "mimalloc"
          /\ children[k].preload <=> children[k].series = "mimalloc"
    /\ Len(malloc_times) = config.iters /\ Len(mimalloc_times) = config.iters
    /\ stdout = [j \in 1..6 |->
                    Printed(SumOverChildren(
                        SeriesChildren(IF j % 2 = 1 THEN "malloc" ELSE "mimalloc"),
                        (j + 1) \div 2))]

\* C11: a timing-mode run with iters = N in which every child exits zero
\* executes the command exactly N times per allocator configuration, in
\* sequence, with LD_PRELOAD only for the non-baseline executions, and each
\* printed total is the sum of its time dimension over the N samples.  The
\* runs meant are those in which the wrapper was started and left its report.
C11_ZeroExitsGiveNRunsAndTotals ==
    ( /\ config.mode = "time"
      /\ DriverEnded
      /\ config.iters > 0 => children # <<>>
      /\ \A k \in 1..Len(children) :
            children[k].rc = 0 /\ children[k].stderr.marked )
        => NRunsPerSeriesAndTotals

\* C11, for the runs that reach the totals: every child exited zero and
\* every report was parsed.
C11_CompletedRunGivesNRunsAndTotals ==
    (config.mode = "time" /\ pc = "done")
        => /\ \A k \in 1..Len(children) : children[k].rc = 0
           /\ NRunsPerSeriesAndTotals

C11_CompletedRunWitness ==
    /\ config.mode = "time" /\ pc = "done"
    /\ config.iters = MaxIters
    /\ \E k \in SeriesChildren("malloc") : \E h \in SeriesChildren("mimalloc") :
          children[k].stderr # children[h].stderr

====
